---- MODULE Spec2Model ----
(***************************************************************************)
(* Model of security-glossary-tw: the YAML validation suite               *)
(* (tests/test_yaml_validation.py, run by pytest) and the documentation    *)
(* builder (scripts/build_docs.py).                                        *)
(*                                                                         *)
(* Strings are sequences of one-character strings, so that the regular     *)
(* expressions, str.strip, str.replace and the sort by file name are       *)
(* computed character by character.  A YAML value of a term is a record    *)
(* [tag, s]: tag "absent" (the key is missing), "null" (None) or "str".    *)
(***************************************************************************)
EXTENDS Integers, Sequences, FiniteSets, TLC

VARIABLES
    files,      \* terms/*.yaml: file name -> parsed document
    enum,       \* the order in which TERMS_DIR.glob("*.yaml") lists the files
    catFile,    \* meta/categories.yaml
    prog,       \* which program runs: "pytest" or "build"
    pc,         \* the test (pytest) or the step of main (build) that runs next
    fixture,    \* pytest: what get_all_terms() gave the test that ran last
    result,     \* pytest: test name -> its TestResult, Pending before it ran
    exitstatus, \* pytest: the exit status of the session, -1 while it runs
    categories, \* build: the return value of load_categories()
    terms,      \* build: the return value of load_all_terms()
    GLOSSARY_DIR,  \* build: term id -> the index.md written in its directory
    API_TERMS_DIR, \* build: file name -> the JSON document written under it
    DOCS_DIR       \* build: path -> the other documents written under docs/

vars == <<files, enum, catFile, prog, pc, fixture, result, exitstatus,
          categories, terms, GLOSSARY_DIR, API_TERMS_DIR, DOCS_DIR>>

----------------------------------------------------------------------------
(* Characters and strings *)

Lower == {"a","b","c","d","e","f","g","h","i","j","k","l","m",
          "n","o","p","q","r","s","t","u","v","w","x","y","z"}

Digit == {"0","1","2","3","4","5","6","7","8","9"}

\* The characters the regular expression class \s and str.strip treat as space.
Whitespace == {" ", "\t", "\n", "\r", "\f"}

\* The characters of the model's file names in code point order.
Alphabet == <<".", "0","1","2","3","4","5","6","7","8","9", "_",
              "a","b","c","d","e","f","g","h","i","j","k","l","m",
              "n","o","p","q","r","s","t","u","v","w","x","y","z">>

\* An order-preserving stand-in for ord(c).
Ord(c) == CHOOSE i \in 1..Len(Alphabet) : Alphabet[i] = c

Min(a, b) == IF a <= b THEN a ELSE b

IsPrefix(p, s) == Len(p) <= Len(s) /\ SubSeq(s, 1, Len(p)) = p

\* Python's s < t on strings: lexicographic by code point.
RECURSIVE StrLess(_, _)
StrLess(s, t) ==
    IF t = <<>> THEN FALSE
    ELSE IF s = <<>> THEN TRUE
    ELSE IF Head(s) = Head(t) THEN StrLess(Tail(s), Tail(t))
    ELSE Ord(Head(s)) < Ord(Head(t))

\* str.replace(old, ""): every non-overlapping occurrence, left to right.
RECURSIVE Remove(_, _)
Remove(s, old) ==
    IF s = <<>> THEN <<>>
    ELSE IF IsPrefix(old, s) THEN Remove(SubSeq(s, Len(old) + 1, Len(s)), old)
    ELSE <<Head(s)>> \o Remove(Tail(s), old)

\* str.strip(): leading and trailing whitespace removed.
RECURSIVE LStrip(_)
LStrip(s) ==
    IF s # <<>> /\ Head(s) \in Whitespace THEN LStrip(Tail(s)) ELSE s

RECURSIVE RStrip(_)
RStrip(s) ==
    IF s # <<>> /\ s[Len(s)] \in Whitespace
    THEN RStrip(SubSeq(s, 1, Len(s) - 1)) ELSE s

Strip(s) == RStrip(LStrip(s))

\* The decimal digits of n, as str(n) or an f-string writes them.
RECURSIVE Digits(_)
Digits(n) ==
    IF n < 10 THEN <<Alphabet[n + 2]>>
    ELSE Digits(n \div 10) \o <<Alphabet[(n % 10) + 2]>>

\* Concatenation of a sequence of sequences, in order; the two halves are
\* concatenated separately so that the evaluation nests log(Len(ss)) deep.
RECURSIVE Flatten(_)
Flatten(ss) ==
    IF ss = <<>> THEN <<>>
    ELSE IF Len(ss) = 1 THEN ss[1]
    ELSE Flatten(SubSeq(ss, 1, Len(ss) \div 2))
            \o Flatten(SubSeq(ss, Len(ss) \div 2 + 1, Len(ss)))

----------------------------------------------------------------------------
(* YAML values *)

Absent == [tag |-> "absent", s |-> <<>>]
Null   == [tag |-> "null", s |-> <<>>]
Str(chars) == [tag |-> "str", s |-> chars]

\* dict.get(key, default)
Get(v, default) == IF v.tag = "absent" THEN default ELSE v

\* `field not in term or term[field] is None`
Missing(v) == v.tag \in {"absent", "null"}

\* How an f-string prints a value.
Fmt(v) == IF v.tag = "null" THEN <<"N","o","n","e">> ELSE v.s

\* bool(v) of None or of a string.
Truthy(v) == v.tag = "str" /\ v.s # <<>>

unknown == Str(<<"u","n","k","n","o","w","n">>)
empty   == Str(<<>>)

----------------------------------------------------------------------------
(* Results of a Python call: a return value or an uncaught exception *)

Return(v) == [ok |-> TRUE, exc |-> "", value |-> v]
Raise(e)  == [ok |-> FALSE, exc |-> e, value |-> <<>>]

SetMin(S) == CHOOSE x \in S : \A y \in S : x <= y

----------------------------------------------------------------------------
(* Regular expressions of the validation suite *)

\* URL_PATTERN.match(url): https?://[^\s"'<>]+ anchored at the start only.
UrlExcluded == Whitespace \cup {"\"", "'", "<", ">"}

http  == <<"h","t","t","p",":","/","/">>
https == <<"h","t","t","p","s",":","/","/">>

URL_PATTERN_match(url) ==
    \E p \in {http, https} :
        /\ IsPrefix(p, url)
        /\ Len(url) > Len(p)
        /\ url[Len(p) + 1] \notin UrlExcluded

\* id_pattern.match(term_id): ^[a-z][a-z0-9_]*$ ; `$` also matches just
\* before a newline that ends the string.
IdBody(s) ==
    /\ s # <<>>
    /\ s[1] \in Lower
    /\ \A i \in 2..Len(s) : s[i] \in Lower \cup Digit \cup {"_"}

id_pattern_match(s) ==
    \/ IdBody(s)
    \/ /\ s # <<>>
       /\ s[Len(s)] = "\n"
       /\ IdBody(SubSeq(s, 1, Len(s) - 1))

----------------------------------------------------------------------------
(* The documents on disk *)

dot_yaml == <<".","y","a","m","l">>
terms_key == <<"t","e","r","m","s">>

\* A parsed terms/*.yaml document.  kind "malformed": yaml.safe_load raises;
\* "none": the empty document (None); "list": a top-level sequence of strings
\* `items`; "map": a mapping, with key `terms` absent, null or a list of term
\* records, and with other keys or not.
Doc(kind, items, other, terms_tag, ts) ==
    [kind |-> kind, items |-> items, other |-> other,
     terms_tag |-> terms_tag, terms |-> ts]

TermsDoc(ts)  == Doc("map", <<>>, FALSE, "list", ts)
NoneDoc       == Doc("none", <<>>, FALSE, "absent", <<>>)
MalformedDoc  == Doc("malformed", <<>>, FALSE, "absent", <<>>)
ListDoc(its)  == Doc("list", its, FALSE, "absent", <<>>)
NoTermsDoc(o) == Doc("map", <<>>, o, "absent", <<>>)
NullTermsDoc  == Doc("map", <<>>, FALSE, "null", <<>>)

\* bool(data)
DocTruthy(d) ==
    \/ d.kind = "list" /\ d.items # <<>>
    \/ d.kind = "map" /\ (d.other \/ d.terms_tag # "absent")

\* "terms" in data, for data a list or a mapping
DocHasTerms(d) ==
    \/ d.kind = "list" /\ \E i \in DOMAIN d.items : d.items[i] = terms_key
    \/ d.kind = "map" /\ d.terms_tag # "absent"

\* data["terms"] iterated: a TypeError on a list (indices must be integers)
\* and on None (not iterable).
DocTerms(d) ==
    IF d.kind = "list" THEN Raise("TypeError")
    ELSE IF d.terms_tag = "null" THEN Raise("TypeError")
    ELSE Return(d.terms)

\* The first exception of a sequence of results, else their values concatenated.
Collect(parts) ==
    LET bad == {i \in DOMAIN parts : ~parts[i].ok}
    IN  IF bad # {} THEN Raise(parts[SetMin(bad)].exc)
        ELSE Return(Flatten([i \in DOMAIN parts |-> parts[i].value]))

----------------------------------------------------------------------------
(* tests/test_yaml_validation.py: the loaders *)

\* load_all_yaml_files(): the dict file name -> data, in glob order.
load_all_yaml_files(fs, order) ==
    IF \E i \in DOMAIN order : fs[order[i]].kind = "malformed"
    THEN Raise("YAMLError")
    ELSE Return([i \in DOMAIN order |-> [name |-> order[i], data |-> fs[order[i]]]])

\* The body of get_all_terms' loop for one file.
file_terms(filename, data) ==
    IF DocTruthy(data) /\ DocHasTerms(data)
    THEN LET ts == DocTerms(data)
         IN  IF ~ts.ok THEN ts
             ELSE Return([i \in DOMAIN ts.value |->
                            [ts.value[i] EXCEPT !._source_file = Str(filename)]])
    ELSE Return(<<>>)

get_all_terms(fs, order) ==
    LET all_data == load_all_yaml_files(fs, order)
    IN  IF ~all_data.ok THEN all_data
        ELSE Collect([i \in DOMAIN all_data.value |->
                        file_terms(all_data.value[i].name, all_data.value[i].data)])

\* meta/categories.yaml.  kind "absent": no such file; "malformed";
\* "none"; "list"; "map" with key `categories` absent, null or a list of
\* category records.
CatDoc(kind, cats_tag, cats) == [kind |-> kind, cats_tag |-> cats_tag, cats |-> cats]

\* data.get("categories", []) iterated
CatDocCategories(d) ==
    IF d.kind \in {"none", "list"} THEN Raise("AttributeError")
    ELSE IF d.cats_tag = "absent" THEN Return(<<>>)
    ELSE IF d.cats_tag = "null" THEN Raise("TypeError")
    ELSE Return(d.cats)

\* load_valid_categories(): the list of category ids, [] without the file.
load_valid_categories(cf) ==
    IF cf.kind = "absent" THEN Return(<<>>)
    ELSE IF cf.kind = "malformed" THEN Raise("YAMLError")
    ELSE LET cs == CatDocCategories(cf)
         IN  IF ~cs.ok THEN cs
             ELSE Return([i \in DOMAIN cs.value |-> cs.value[i].id])

----------------------------------------------------------------------------
(* scripts/build_docs.py: the loaders *)

\* sorted(TERMS_DIR.glob("*.yaml")): by file name.
RECURSIVE Sorted(_)
Sorted(names) ==
    IF names = <<>> THEN <<>>
    ELSE LET i == CHOOSE i \in DOMAIN names :
                    \A j \in DOMAIN names : ~StrLess(names[j], names[i])
             rest == [k \in 1..(Len(names) - 1) |->
                        IF k < i THEN names[k] ELSE names[k + 1]]
         IN  <<names[i]>> \o Sorted(rest)

\* load_categories(): the mapping category id -> category record.
load_categories(cf) ==
    IF cf.kind = "absent" THEN Raise("FileNotFoundError")
    ELSE IF cf.kind = "malformed" THEN Raise("YAMLError")
    ELSE LET cs == CatDocCategories(cf)
         IN  IF ~cs.ok THEN cs
             ELSE LET ids == {cs.value[i].id : i \in DOMAIN cs.value}
                      last(id) == CHOOSE i \in DOMAIN cs.value :
                                     /\ cs.value[i].id = id
                                     /\ \A j \in DOMAIN cs.value :
                                          cs.value[j].id = id => j <= i
                  IN  Return([id \in ids |-> cs.value[last(id)]])

\* The body of load_all_terms' loop for one file.
build_file_terms(data) ==
    IF data.kind = "malformed" THEN Raise("YAMLError")
    ELSE IF DocTruthy(data) /\ DocHasTerms(data) THEN DocTerms(data)
    ELSE Return(<<>>)

load_all_terms(fs, order) ==
    LET yaml_files == Sorted(order)
    IN  Collect([i \in DOMAIN yaml_files |-> build_file_terms(fs[yaml_files[i]])])

----------------------------------------------------------------------------
(* Term records *)

\* definitions: absent, null, a string, or a mapping with key `brief`.
Definitions(tag, brief) == [tag |-> tag, brief |-> brief]

\* related_terms: absent, null, or a list of ids.
Related(tag, items) == [tag |-> tag, items |-> items]

\* references: absent, null, or a mapping, kept as its items in order.
References(tag, items) == [tag |-> tag, items |-> items]
Ref(key, url) == [key |-> key, url |-> url]

\* tags: absent, null, or a list of strings.
Tags(tag, items) == [tag |-> tag, items |-> items]

\* aliases: absent, null, or a mapping whose keys zh and en are each absent or
\* a list of strings.
Aliases(tag, zh, en) == [tag |-> tag, zh |-> zh, en |-> en]
NoList == [tag |-> "absent", items |-> <<>>]
List(items) == [tag |-> "list", items |-> items]

\* A term record; subcategory, tags and aliases are absent unless set.
Term(id, term_en, term_zh, category, definitions, related_terms, references) ==
    [id |-> id, term_en |-> term_en, term_zh |-> term_zh, category |-> category,
     definitions |-> definitions, related_terms |-> related_terms,
     references |-> references, subcategory |-> Absent,
     tags |-> Tags("absent", <<>>), aliases |-> Aliases("absent", NoList, NoList),
     _source_file |-> Absent]

----------------------------------------------------------------------------
(* tests/test_yaml_validation.py: constants *)

REQUIRED_FIELDS == <<"id", "term_en", "term_zh", "definitions", "category">>

\* `missing_fields[:20]` and the like: the findings an assertion message shows.
ReportLimit == 20

\* test_minimum_term_count: len(terms) >= 100
MinTermCount == 100

\* test_related_terms_exist: len(missing_references) > 10
MissingRefThreshold == 10

attack_types    == <<"a","t","t","a","c","k","_","t","y","p","e","s">>
vulnerabilities == <<"v","u","l","n","e","r","a","b","i","l","i","t","i","e","s">>
malware         == <<"m","a","l","w","a","r","e">>
technologies    == <<"t","e","c","h","n","o","l","o","g","i","e","s">>

main_categories == <<attack_types, vulnerabilities, malware, technologies>>

----------------------------------------------------------------------------
(* The result of one test *)

Finding(what, source, term_id, arg) ==
    [what |-> what, source |-> source, term_id |-> term_id, arg |-> arg]

\* outcome, the findings collected, those the assertion message prints, and
\* the lines printed.
TestResult(o, fs, rep, out) ==
    [outcome |-> o, findings |-> fs, report |-> rep, out |-> out]

Passed == TestResult("passed", <<>>, <<>>, <<>>)
Error  == TestResult("error", <<>>, <<>>, <<>>)

\* `assert len(xs) == 0, "..." + "\n".join(xs)`
AssertNone(xs) ==
    IF xs = <<>> THEN Passed ELSE TestResult("failed", xs, xs, <<>>)

\* Mutation of Truncate: xs[:1], the first finding only.
Truncate_First(xs) == SubSeq(xs, 1, Min(Len(xs), 1))

\* xs[:20]
Truncate(xs) == SubSeq(xs, 1, Min(Len(xs), ReportLimit))

\* `assert len(xs) == 0, "..." + "\n".join(xs[:20])`
AssertNoneTruncated(xs) ==
    IF xs = <<>> THEN Passed ELSE TestResult("failed", xs, Truncate(xs), <<>>)

----------------------------------------------------------------------------
(* tests/test_yaml_validation.py: TestYamlStructure *)

\* len(list(TERMS_DIR.glob("*.yaml"))) > 0
yaml_files_exist(order) ==
    IF Len(order) > 0 THEN Passed
    ELSE TestResult("failed", <<Finding("no_yaml_files", <<>>, <<>>, <<>>)>>,
                    <<Finding("no_yaml_files", <<>>, <<>>, <<>>)>>, <<>>)

\* The asserts of test_yaml_syntax_valid on one file.
syntax_valid_file(f) ==
    IF f.data.kind = "none" THEN "unparsable"
    ELSE IF f.data.kind # "map" THEN "not_a_dict"
    ELSE "ok"

\* The asserts of test_yaml_has_terms_key on one file: `"terms" in None`
\* and data["terms"] on a list raise TypeError.
has_terms_key_file(f) ==
    IF f.data.kind = "none" THEN "TypeError"
    ELSE IF ~DocHasTerms(f.data) THEN "no_terms_key"
    ELSE IF f.data.kind = "list" THEN "TypeError"
    ELSE IF f.data.terms_tag # "list" THEN "terms_not_a_list"
    ELSE "ok"

\* A loop of asserts over the files: the first file that is not "ok" ends it.
FirstFailure(all_yaml_files, check(_)) ==
    IF ~all_yaml_files.ok THEN Error
    ELSE LET fs  == all_yaml_files.value
             bad == {i \in DOMAIN fs : check(fs[i]) # "ok"}
         IN  IF bad = {} THEN Passed
             ELSE LET f == fs[SetMin(bad)]
                  IN  IF check(f) = "TypeError" THEN Error
                      ELSE LET x == Finding(check(f), f.name, <<>>, <<>>)
                           IN  TestResult("failed", <<x>>, <<x>>, <<>>)

yaml_syntax_valid(all_yaml_files) == FirstFailure(all_yaml_files, syntax_valid_file)

yaml_has_terms_key(all_yaml_files) == FirstFailure(all_yaml_files, has_terms_key_file)

----------------------------------------------------------------------------
(* TestTermIdUniqueness *)

\* Mutation of unique_loop: seen_ids is overwritten at every occurrence, so a
\* finding names the previous occurrence instead of the first.
RECURSIVE unique_loop_Overwriting(_, _, _, _)
unique_loop_Overwriting(all_terms, i, seen_ids, duplicates) ==
    IF i > Len(all_terms) THEN [seen_ids |-> seen_ids, duplicates |-> duplicates]
    ELSE IF i = Len(all_terms)
    THEN LET term_id == Get(all_terms[i].id, Null)
             source  == all_terms[i]._source_file
         IN  [seen_ids   |-> (term_id :> source) @@ seen_ids,
              duplicates |->
                 IF term_id \in DOMAIN seen_ids
                 THEN Append(duplicates,
                             Finding("duplicate_id", Fmt(source), Fmt(term_id),
                                     Fmt(seen_ids[term_id])))
                 ELSE duplicates]
    ELSE LET mid   == (i + Len(all_terms)) \div 2
             first == unique_loop_Overwriting(SubSeq(all_terms, 1, mid), i,
                                              seen_ids, duplicates)
         IN  IF first = first
             THEN unique_loop_Overwriting(all_terms, mid + 1,
                                          first.seen_ids, first.duplicates)
             ELSE first

\* The loop of test_term_ids_unique_globally over the terms from term i on,
\* in order: seen_ids maps an id to the source of its first occurrence, and
\* the result is seen_ids and duplicates after the last term.  The terms
\* i..mid are run before the terms after mid (`first = first` has the value
\* of first computed before it is passed on), so that the evaluation nests
\* log(Len(all_terms)) deep.
RECURSIVE unique_loop(_, _, _, _)
unique_loop(all_terms, i, seen_ids, duplicates) ==
    IF i > Len(all_terms) THEN [seen_ids |-> seen_ids, duplicates |-> duplicates]
    ELSE IF i = Len(all_terms)
    THEN LET term_id == Get(all_terms[i].id, Null)
             source  == all_terms[i]._source_file
         IN  IF term_id \in DOMAIN seen_ids
             THEN [seen_ids   |-> seen_ids,
                   duplicates |->
                      Append(duplicates,
                             Finding("duplicate_id", Fmt(source), Fmt(term_id),
                                     Fmt(seen_ids[term_id])))]
             ELSE [seen_ids   |-> (term_id :> source) @@ seen_ids,
                   duplicates |-> duplicates]
    ELSE LET mid   == (i + Len(all_terms)) \div 2
             first == unique_loop(SubSeq(all_terms, 1, mid), i, seen_ids, duplicates)
         IN  IF first = first
             THEN unique_loop(all_terms, mid + 1, first.seen_ids, first.duplicates)
             ELSE first

term_ids_unique_globally(all_terms) ==
    IF ~all_terms.ok THEN Error
    ELSE AssertNone(unique_loop(all_terms.value, 1, <<>>, <<>>).duplicates)

\* One term of test_term_id_format; id_pattern.match(None) raises TypeError.
id_format_term(term) ==
    LET term_id == Get(term.id, empty)
    IN  IF term_id.tag = "null" THEN Raise("TypeError")
        ELSE IF ~id_pattern_match(term_id.s)
        THEN Return(<<Finding("invalid_id", Fmt(term._source_file), term_id.s, <<>>)>>)
        ELSE Return(<<>>)

\* A loop over the terms that collects findings; an exception ends the test.
PerTerm(all_terms, body(_), assert(_)) ==
    IF ~all_terms.ok THEN Error
    ELSE LET r == Collect([i \in DOMAIN all_terms.value |-> body(all_terms.value[i])])
         IN  IF ~r.ok THEN Error ELSE assert(r.value)

term_id_format(all_terms) == PerTerm(all_terms, id_format_term, AssertNone)

----------------------------------------------------------------------------
(* TestRequiredFields *)

required_fields_term(term) ==
    LET term_id == Get(term.id, unknown)
        source  == Get(term._source_file, unknown)
    IN  Return(Flatten([k \in DOMAIN REQUIRED_FIELDS |->
            IF Missing(term[REQUIRED_FIELDS[k]])
            THEN <<Finding("missing_field", Fmt(source), Fmt(term_id),
                           <<REQUIRED_FIELDS[k]>>)>>
            ELSE <<>>]))

required_fields_present(all_terms) ==
    PerTerm(all_terms, required_fields_term, AssertNoneTruncated)

definitions_term(term) ==
    LET term_id == Get(term.id, unknown)
        source  == Get(term._source_file, unknown)
        definitions == IF term.definitions.tag = "absent"
                       THEN Definitions("map", Absent) ELSE term.definitions
    IN  IF definitions.tag # "map"
        THEN Return(<<Finding("definitions_format", Fmt(source), Fmt(term_id), <<>>)>>)
        ELSE IF definitions.brief.tag = "absent" \/ ~Truthy(definitions.brief)
        THEN Return(<<Finding("missing_brief", Fmt(source), Fmt(term_id), <<>>)>>)
        ELSE Return(<<>>)

definitions_has_brief(all_terms) ==
    PerTerm(all_terms, definitions_term, AssertNoneTruncated)

\* None.strip() raises AttributeError.
names_term(term) ==
    LET term_id == Get(term.id, unknown)
        source  == Get(term._source_file, unknown)
        en == Get(term.term_en, empty)
        zh == Get(term.term_zh, empty)
    IN  IF en.tag = "null" \/ zh.tag = "null" THEN Raise("AttributeError")
        ELSE Return(
            (IF Strip(en.s) = <<>>
             THEN <<Finding("empty_name", Fmt(source), Fmt(term_id), <<"term_en">>)>>
             ELSE <<>>)
            \o
            (IF Strip(zh.s) = <<>>
             THEN <<Finding("empty_name", Fmt(source), Fmt(term_id), <<"term_zh">>)>>
             ELSE <<>>))

term_names_not_empty(all_terms) == PerTerm(all_terms, names_term, AssertNone)

----------------------------------------------------------------------------
(* TestCategoryConsistency *)

InList(x, xs) == \E i \in DOMAIN xs : xs[i] = x

category_valid_term(term, valid_categories) ==
    LET term_id  == Get(term.id, unknown)
        source   == Get(term._source_file, unknown)
        category == Get(term.category, empty)
    IN  IF category.tag = "null" \/ ~InList(category.s, valid_categories)
        THEN Return(<<Finding("invalid_category", Fmt(source), Fmt(term_id),
                              Fmt(category))>>)
        ELSE Return(<<>>)

\* `if not valid_categories: pytest.skip(...)`
category_is_valid(all_terms, valid_categories) ==
    IF ~all_terms.ok \/ ~valid_categories.ok THEN Error
    ELSE IF valid_categories.value = <<>>
    THEN TestResult("skipped", <<>>, <<>>, <<>>)
    ELSE LET body(term) == category_valid_term(term, valid_categories.value)
         IN  PerTerm(all_terms, body, AssertNoneTruncated)

category_filename_term(term) ==
    LET term_id  == Get(term.id, unknown)
        source   == Get(term._source_file, unknown)
        category == Get(term.category, empty)
        expected_category == Remove(Fmt(source), dot_yaml)
    IN  IF category.tag = "null" \/ category.s # expected_category
        THEN Return(<<Finding("category_mismatch", Fmt(source), Fmt(term_id),
                              Fmt(category))>>)
        ELSE Return(<<>>)

\* Mutation of SkipIfAny: the mismatches are asserted to be none.
SkipIfAny_Asserted(mismatches) == AssertNone(mismatches)

\* `if mismatches: pytest.skip(...)`: a warning, the test never fails.
SkipIfAny(mismatches) ==
    IF mismatches = <<>> THEN Passed
    ELSE TestResult("skipped", mismatches, <<>>, <<>>)

category_matches_filename(all_terms) ==
    PerTerm(all_terms, category_filename_term, SkipIfAny)

----------------------------------------------------------------------------
(* TestRelatedTerms *)

\* {term.get("id") for term in all_terms if term.get("id")}
all_term_ids(all_terms) ==
    {all_terms[i].id.s : i \in {j \in DOMAIN all_terms : Truthy(all_terms[j].id)}}

related_term(term, ids) ==
    LET term_id == Get(term.id, unknown)
        source  == Get(term._source_file, unknown)
        related == term.related_terms
    IN  IF related.tag = "null" THEN Return(<<>>)
        ELSE Return(Flatten([k \in DOMAIN related.items |->
                IF related.items[k] \notin ids
                THEN <<Finding("missing_reference", Fmt(source), Fmt(term_id),
                               related.items[k])>>
                ELSE <<>>]))

\* Mutation of WarnIfMany: the alert is printed from 10 references on.
WarnIfMany_Inclusive(missing_references) ==
    TestResult("passed", missing_references, <<>>,
               IF missing_references # <<>>
                  /\ Len(missing_references) >= MissingRefThreshold
               THEN <<<<"missing_references", Digits(Len(missing_references))>>>>
               ELSE <<>>)

\* `if missing_references and len(missing_references) > 10: print(...)`
WarnIfMany(missing_references) ==
    TestResult("passed", missing_references, <<>>,
               IF missing_references # <<>>
                  /\ Len(missing_references) > MissingRefThreshold
               THEN <<<<"missing_references", Digits(Len(missing_references))>>>>
               ELSE <<>>)

related_terms_exist(all_terms) ==
    IF ~all_terms.ok THEN Error
    ELSE LET ids == all_term_ids(all_terms.value)
             body(term) == related_term(term, ids)
         IN  PerTerm(all_terms, body, WarnIfMany)

----------------------------------------------------------------------------
(* TestUrlValidity *)

\* `if url and isinstance(url, str): if not URL_PATTERN.match(url): ...`
reference_urls_term(term) ==
    LET term_id    == Get(term.id, unknown)
        source     == Get(term._source_file, unknown)
        references == term.references
    IN  IF references.tag = "null" THEN Return(<<>>)
        ELSE Return(Flatten([k \in DOMAIN references.items |->
                LET key == references.items[k].key
                    url == references.items[k].url
                IN  IF Truthy(url) /\ ~URL_PATTERN_match(url.s)
                    THEN <<Finding("invalid_url", Fmt(source), Fmt(term_id), key)>>
                    ELSE <<>>]))

reference_urls_format(all_terms) ==
    PerTerm(all_terms, reference_urls_term, AssertNoneTruncated)

----------------------------------------------------------------------------
(* TestTermCount *)

\* Mutation of minimum_term_count: `assert len(terms) > 100`.
minimum_term_count_Strict(all_terms) ==
    IF ~all_terms.ok THEN Error
    ELSE IF Len(all_terms.value) > MinTermCount THEN Passed
    ELSE LET x == Finding("too_few_terms", <<>>, <<>>, Digits(Len(all_terms.value)))
         IN  TestResult("failed", <<x>>, <<x>>, <<>>)

\* `assert len(terms) >= 100`
minimum_term_count(all_terms) ==
    IF ~all_terms.ok THEN Error
    ELSE IF Len(all_terms.value) >= MinTermCount THEN Passed
    ELSE LET x == Finding("too_few_terms", <<>>, <<>>, Digits(Len(all_terms.value)))
         IN  TestResult("failed", <<x>>, <<x>>, <<>>)

\* The keys of the dict `categories`: term.get("category", "unknown").
category_keys(all_terms) ==
    {Get(all_terms[i].category, unknown) : i \in DOMAIN all_terms}

\* categories.get(cat, 0)
category_count(all_terms, cat) ==
    Cardinality({i \in DOMAIN all_terms : Get(all_terms[i].category, unknown) = Str(cat)})

\* sorted() of a set of strings
RECURSIVE SortedSet(_)
SortedSet(S) ==
    IF S = {} THEN <<>>
    ELSE LET m == CHOOSE x \in S : \A y \in S : ~StrLess(y, x)
         IN  <<m>> \o SortedSet(S \ {m})

\* sorted(categories.items()) raises TypeError when None is compared with a
\* string; then the counts are printed and each main category is asserted to
\* have a term, the first empty one ending the test.
term_count_by_category(all_terms) ==
    IF ~all_terms.ok THEN Error
    ELSE LET keys == category_keys(all_terms.value)
         IN  IF Null \in keys /\ Cardinality(keys) > 1 THEN Error
             ELSE LET names == SortedSet({Fmt(k) : k \in keys})
                      count(name) == Cardinality({i \in DOMAIN all_terms.value :
                          Fmt(Get(all_terms.value[i].category, unknown)) = name})
                      stats == [k \in DOMAIN names |->
                                  <<"count", names[k], Digits(count(names[k]))>>]
                      bad == {k \in DOMAIN main_categories :
                                category_count(all_terms.value, main_categories[k]) = 0}
                  IN  IF bad = {} THEN TestResult("passed", <<>>, <<>>, stats)
                      ELSE LET x == Finding("empty_category", <<>>, <<>>,
                                            main_categories[SetMin(bad)])
                           IN  TestResult("failed", <<x>>, <<x>>, stats)

----------------------------------------------------------------------------
(* The pytest session over tests/test_yaml_validation.py *)

\* The tests in the order pytest runs them: the order of the file.
TestOrder == <<"test_yaml_files_exist", "test_yaml_syntax_valid",
               "test_yaml_has_terms_key", "test_term_ids_unique_globally",
               "test_term_id_format", "test_required_fields_present",
               "test_definitions_has_brief", "test_term_names_not_empty",
               "test_category_is_valid", "test_category_matches_filename",
               "test_related_terms_exist", "test_reference_urls_format",
               "test_minimum_term_count", "test_term_count_by_category">>

Tests == {TestOrder[i] : i \in DOMAIN TestOrder}

Pending == TestResult("pending", <<>>, <<>>, <<>>)

\* The value of a variable before the call that sets it.
NotLoaded == Raise("not loaded")

After(name) ==
    LET i == CHOOSE i \in DOMAIN TestOrder : TestOrder[i] = name
    IN  IF i = Len(TestOrder) THEN "sessionfinish" ELSE TestOrder[i + 1]

\* A test that does not load the terms.
RunTest(name, r) ==
    /\ prog = "pytest"
    /\ pc = name
    /\ result' = [result EXCEPT ![name] = r]
    /\ pc' = After(name)
    /\ UNCHANGED <<files, enum, catFile, prog, fixture, exitstatus, categories, terms,
                   GLOSSARY_DIR, API_TERMS_DIR, DOCS_DIR>>

\* A test over get_all_terms(), called by the class's fixture `all_terms` or
\* by the test itself.
RunTermsTest(name, test(_)) ==
    /\ prog = "pytest"
    /\ pc = name
    /\ fixture' = get_all_terms(files, enum)
    /\ result' = [result EXCEPT ![name] = test(fixture')]
    /\ pc' = After(name)
    /\ UNCHANGED <<files, enum, catFile, prog, exitstatus, categories, terms,
                   GLOSSARY_DIR, API_TERMS_DIR, DOCS_DIR>>

test_yaml_files_exist ==
    RunTest("test_yaml_files_exist", yaml_files_exist(enum))

test_yaml_syntax_valid ==
    RunTest("test_yaml_syntax_valid",
            yaml_syntax_valid(load_all_yaml_files(files, enum)))

test_yaml_has_terms_key ==
    RunTest("test_yaml_has_terms_key",
            yaml_has_terms_key(load_all_yaml_files(files, enum)))

test_term_ids_unique_globally ==
    RunTermsTest("test_term_ids_unique_globally", term_ids_unique_globally)

test_term_id_format ==
    RunTermsTest("test_term_id_format", term_id_format)

test_required_fields_present ==
    RunTermsTest("test_required_fields_present", required_fields_present)

test_definitions_has_brief ==
    RunTermsTest("test_definitions_has_brief", definitions_has_brief)

test_term_names_not_empty ==
    RunTermsTest("test_term_names_not_empty", term_names_not_empty)

test_category_is_valid ==
    LET test(ts) == category_is_valid(ts, load_valid_categories(catFile))
    IN  RunTermsTest("test_category_is_valid", test)

test_category_matches_filename ==
    RunTermsTest("test_category_matches_filename", category_matches_filename)

test_related_terms_exist ==
    RunTermsTest("test_related_terms_exist", related_terms_exist)

test_reference_urls_format ==
    RunTermsTest("test_reference_urls_format", reference_urls_format)

test_minimum_term_count ==
    RunTermsTest("test_minimum_term_count", minimum_term_count)

test_term_count_by_category ==
    RunTermsTest("test_term_count_by_category", term_count_by_category)

\* pytest's exit status: 1 when a test failed or raised, else 0; a skipped
\* test does not fail the session.
SessionStatus(res) ==
    IF \E t \in Tests : res[t].outcome \in {"failed", "error"} THEN 1 ELSE 0

pytest_sessionfinish ==
    /\ prog = "pytest"
    /\ pc = "sessionfinish"
    /\ exitstatus' = SessionStatus(result)
    /\ pc' = "done"
    /\ UNCHANGED <<files, enum, catFile, prog, fixture, result, categories, terms,
                   GLOSSARY_DIR, API_TERMS_DIR, DOCS_DIR>>

\* Everything the session printed, in order.
Stdout == Flatten([i \in DOMAIN TestOrder |-> result[TestOrder[i]].out])

----------------------------------------------------------------------------
(* json.dumps and json.loads *)

quote     == "\""
backslash == "\\"
null_text == <<"n","u","l","l">>
dot_json  == <<".","j","s","o","n">>

\* The two-character escapes json.dumps writes with ensure_ascii=False; the
\* other control characters, written as \u00XX, are in no string of the model.
EscapeOf(c) ==
    CASE c = quote     -> <<backslash, quote>>
      [] c = backslash -> <<backslash, backslash>>
      [] c = "\n"      -> <<backslash, "n">>
      [] c = "\r"      -> <<backslash, "r">>
      [] c = "\t"      -> <<backslash, "t">>
      [] c = "\f"      -> <<backslash, "f">>
      [] OTHER         -> <<c>>

RECURSIVE Escape(_)
Escape(str) == IF str = <<>> THEN <<>> ELSE EscapeOf(Head(str)) \o Escape(Tail(str))

\* The character an escape letter stands for when json.loads reads it.
UnescapeOf(c) ==
    CASE c = "n" -> "\n"
      [] c = "r" -> "\r"
      [] c = "t" -> "\t"
      [] c = "f" -> "\f"
      [] OTHER   -> c

RECURSIVE Unescape(_)
Unescape(text) ==
    IF text = <<>> THEN <<>>
    ELSE IF Head(text) = backslash /\ Len(text) >= 2
         THEN <<UnescapeOf(text[2])>> \o Unescape(SubSeq(text, 3, Len(text)))
    ELSE <<Head(text)>> \o Unescape(Tail(text))

\* json.dumps of None or of a string: the JSON text.
dumps_scalar(v) ==
    IF v.tag = "null" THEN null_text ELSE <<quote>> \o Escape(v.s) \o <<quote>>

\* json.loads of the JSON text of null or of a string.
loads_scalar(text) ==
    IF text = null_text THEN Null
    ELSE Str(Unescape(SubSeq(text, 2, Len(text) - 1)))

\* json.dumps of None or of a list of strings: each item as its JSON text.
dumps_list(l) == [l EXCEPT !.items = [i \in DOMAIN l.items |-> dumps_scalar(Str(l.items[i]))]]

loads_list(l) == [l EXCEPT !.items = [i \in DOMAIN l.items |-> loads_scalar(l.items[i]).s]]

\* A key of a mapping that may be missing: written only when it is there.
dumps_optional(v) == IF v.tag = "absent" THEN v ELSE [v EXCEPT !.s = dumps_scalar(v)]

loads_optional(v) == IF v.tag = "absent" THEN v ELSE loads_scalar(v.s)

\* json.dumps(json_content, ensure_ascii=False, indent=2) of an export
\* record: the keys it has, each leaf as its JSON text.
dumps_term(json_content) ==
    [k \in DOMAIN json_content |->
        CASE k \in {"id", "term_en", "term_zh", "category", "subcategory"} ->
               dumps_scalar(json_content[k])
          [] k = "definitions" ->
               [json_content[k] EXCEPT !.brief = dumps_optional(@)]
          [] k \in {"tags", "related_terms"} -> dumps_list(json_content[k])
          [] k = "aliases" ->
               [json_content[k] EXCEPT !.zh = dumps_list(@), !.en = dumps_list(@)]
          [] OTHER -> json_content[k]]

\* json.loads of a document written by dumps_term: the keys it holds, each
\* leaf read back.
loads_term(document) ==
    [k \in DOMAIN document |->
        CASE k \in {"id", "term_en", "term_zh", "category", "subcategory"} ->
               loads_scalar(document[k])
          [] k = "definitions" ->
               [document[k] EXCEPT !.brief = loads_optional(@)]
          [] k \in {"tags", "related_terms"} -> loads_list(document[k])
          [] k = "aliases" ->
               [document[k] EXCEPT !.zh = loads_list(@), !.en = loads_list(@)]
          [] OTHER -> document[k]]

\* int() of the digits of a JSON number.
RECURSIVE loads_int(_)
loads_int(text) ==
    IF text = <<>> THEN 0
    ELSE 10 * loads_int(SubSeq(text, 1, Len(text) - 1)) + (Ord(text[Len(text)]) - 2)

----------------------------------------------------------------------------
(* scripts/build_docs.py: the generators *)

\* generate_term_markdown(term, categories), cats being the mapping
\* `categories`: the exception it raises, or the
\* lines that carry the term's data: the title, the Chinese name, the brief
\* definition, the category badge, then the aliases, the related terms, the
\* tags and the references.  The term records of the model have no
\* definitions.standard and no usage.
generate_term_markdown(term, cats) ==
    IF term.id.tag = "absent" \/ term.term_en.tag = "absent"
       \/ term.term_zh.tag = "absent"
    THEN Raise("KeyError")
    ELSE IF term.definitions.tag \in {"null", "str"} THEN Raise("AttributeError")
    ELSE IF term.aliases.tag = "null" THEN Raise("AttributeError")
    ELSE LET brief == IF term.definitions.tag = "absent" THEN empty
                      ELSE Get(term.definitions.brief, empty)
             category_id == Get(term.category, empty)
             category_name ==
                 IF category_id.tag = "str" /\ category_id.s \in DOMAIN cats
                 THEN cats[category_id.s].name_zh
                 ELSE Fmt(category_id)
             zh_aliases == term.aliases.zh.items
             en_aliases == term.aliases.en.items
             related    == term.related_terms.items
             tags       == term.tags.items
             references == term.references.items
         IN  Return(<<
                <<"#", Fmt(term.term_en)>>,
                <<"**", Fmt(term.term_zh)>>,
                <<"info", Fmt(brief)>>,
                <<"md-tag", category_name>> >>
              \o (IF zh_aliases # <<>> THEN <<<<"zh", Flatten(zh_aliases)>>>> ELSE <<>>)
              \o (IF en_aliases # <<>> THEN <<<<"en", Flatten(en_aliases)>>>> ELSE <<>>)
              \o [i \in DOMAIN related |-> <<"related", related[i]>>]
              \o (IF tags # <<>> THEN <<<<"tags", Flatten(tags)>>>> ELSE <<>>)
              \o [i \in DOMAIN references |->
                    <<"reference", references[i].key, Fmt(references[i].url)>>])

\* Mutation of generate_term_json: the whole term is exported, with the
\* keys it has.
generate_term_json_Whole(term) ==
    IF term.id.tag = "absent" \/ term.term_en.tag = "absent"
       \/ term.term_zh.tag = "absent"
    THEN Raise("KeyError")
    ELSE Return([id |-> term.id, term_en |-> term.term_en, term_zh |-> term.term_zh,
                 definitions |-> IF term.definitions.tag = "absent"
                                 THEN Definitions("map", Absent) ELSE term.definitions,
                 category |-> Get(term.category, empty),
                 subcategory |-> Get(term.subcategory, empty),
                 tags |-> IF term.tags.tag = "absent" THEN Tags("list", <<>>) ELSE term.tags,
                 related_terms |-> IF term.related_terms.tag = "absent"
                                   THEN Related("list", <<>>) ELSE term.related_terms,
                 aliases |-> IF term.aliases.tag = "absent"
                             THEN Aliases("map", NoList, NoList) ELSE term.aliases,
                 references |-> term.references,
                 _source_file |-> term._source_file])

\* generate_term_json(term): term["id"], term["term_en"] and term["term_zh"]
\* raise KeyError when the key is missing; the other six keys have defaults.
generate_term_json(term) ==
    IF term.id.tag = "absent" \/ term.term_en.tag = "absent"
       \/ term.term_zh.tag = "absent"
    THEN Raise("KeyError")
    ELSE Return([id |-> term.id, term_en |-> term.term_en, term_zh |-> term.term_zh,
                 definitions |-> IF term.definitions.tag = "absent"
                                 THEN Definitions("map", Absent) ELSE term.definitions,
                 category |-> Get(term.category, empty),
                 subcategory |-> Get(term.subcategory, empty),
                 tags |-> IF term.tags.tag = "absent" THEN Tags("list", <<>>) ELSE term.tags,
                 related_terms |-> IF term.related_terms.tag = "absent"
                                   THEN Related("list", <<>>) ELSE term.related_terms,
                 aliases |-> IF term.aliases.tag = "absent"
                             THEN Aliases("map", NoList, NoList) ELSE term.aliases])

\* The characters of the model's term names in code point order, and
\* str.lower on them.
CodePoints ==
    <<"\t", "\n", "\f", "\r", " ", "\"", "'", "-", ".", "/",
      "0","1","2","3","4","5","6","7","8","9", ":", "<", ">",
      "A","B","C","D","E","F","G","H","I","J","K","L","M",
      "N","O","P","Q","R","S","T","U","V","W","X","Y","Z", "\\", "_",
      "a","b","c","d","e","f","g","h","i","j","k","l","m",
      "n","o","p","q","r","s","t","u","v","w","x","y","z">>

CodePoint(c) == CHOOSE i \in DOMAIN CodePoints : CodePoints[i] = c

lower(str) ==
    [i \in DOMAIN str |->
        LET n == CodePoint(str[i])
        IN  IF n >= CodePoint("A") /\ n <= CodePoint("Z")
            THEN CodePoints[n - CodePoint("A") + CodePoint("a")]
            ELSE str[i]]

RECURSIVE KeyLess(_, _)
KeyLess(a, b) ==
    IF b = <<>> THEN FALSE
    ELSE IF a = <<>> THEN TRUE
    ELSE IF Head(a) = Head(b) THEN KeyLess(Tail(a), Tail(b))
    ELSE CodePoint(Head(a)) < CodePoint(Head(b))

\* What a term raises in generate_glossary_index: in the sort key
\* t["term_en"].lower(), or when its row is written.
index_key_raises(term) ==
    IF term.term_en.tag = "absent" THEN "KeyError"
    ELSE IF term.term_en.tag = "null" THEN "AttributeError"
    ELSE ""

index_row_raises(term) ==
    IF term.id.tag = "absent" \/ term.term_zh.tag = "absent" THEN "KeyError"
    ELSE IF term.definitions.tag \in {"null", "str"} THEN "AttributeError"
    ELSE ""

\* The section of one category: sorted() computes the keys of cat_terms in
\* list order, then the rows are written in the order of the keys, equal
\* keys in list order.
index_section(cat_terms) ==
    LET bad_keys == {i \in DOMAIN cat_terms : index_key_raises(cat_terms[i]) # ""}
        bad_rows == {i \in DOMAIN cat_terms : index_row_raises(cat_terms[i]) # ""}
        key(i)   == lower(cat_terms[i].term_en.s)
        first    == CHOOSE i \in bad_rows : \A j \in bad_rows \ {i} :
                       \/ KeyLess(key(i), key(j))
                       \/ ~KeyLess(key(j), key(i)) /\ i < j
    IN  IF bad_keys # {} THEN index_key_raises(cat_terms[SetMin(bad_keys)])
        ELSE IF bad_rows # {} THEN index_row_raises(cat_terms[first])
        ELSE ""

other == Str(<<"o","t","h","e","r">>)

\* generate_glossary_index(terms, categories): the exception it raises, or
\* the number of terms of the page and the categories of its sections in
\* order; the rows of the tables are not kept.  sorted(by_category.items())
\* raises TypeError when None is compared with a string.
generate_glossary_index(all_terms, cats) ==
    LET keys == {Get(all_terms[i].category, other) : i \in DOMAIN all_terms}
    IN  IF Null \in keys /\ Cardinality(keys) > 1 THEN Raise("TypeError")
        ELSE LET names == SortedSet({Fmt(k) : k \in keys})
                 of(name) == SelectSeq(all_terms,
                                 LAMBDA t : Fmt(Get(t.category, other)) = name)
                 bad == {k \in DOMAIN names : index_section(of(names[k])) # ""}
             IN  IF bad # {} THEN Raise(index_section(of(names[SetMin(bad)])))
                 ELSE Return([count |-> Digits(Len(all_terms)), sections |-> names])

\* generate_categories_index(terms, categories): for each category of the
\* registry, the number of terms that name it.
generate_categories_index(all_terms, cats) ==
    [cat_id \in DOMAIN cats |->
        Digits(Cardinality({i \in DOMAIN all_terms :
                              Get(all_terms[i].category, other) = Str(cat_id)}))]

\* generate_api_index(): a fixed text.
generate_api_index == "# API"

\* generate_home_page(terms, categories): the two numbers of the page.
generate_home_page(all_terms, cats) ==
    [terms |-> Digits(Len(all_terms)), categories |-> Digits(Cardinality(DOMAIN cats))]

\* The loop of main over the terms from term i on, with the files written
\* so far: a later write under the same name replaces the earlier one.  An
\* exception ends the loop and leaves what was written.
RECURSIVE term_pages_loop(_, _, _, _, _)
term_pages_loop(all_terms, i, cats, glossary, api_terms) ==
    IF i > Len(all_terms)
    THEN [ok |-> TRUE, exc |-> "", glossary |-> glossary, api_terms |-> api_terms]
    ELSE LET term == all_terms[i]
             stop(e) == [ok |-> FALSE, exc |-> e,
                         glossary |-> glossary, api_terms |-> api_terms]
         IN  IF term.id.tag = "absent" THEN stop("KeyError")
             ELSE IF term.id.tag = "null" THEN stop("TypeError")
             ELSE LET term_id      == term.id.s
                      md_content   == generate_term_markdown(term, cats)
                      json_content == generate_term_json(term)
                  IN  IF ~md_content.ok THEN stop(md_content.exc)
                      ELSE IF ~json_content.ok THEN
                          [stop(json_content.exc) EXCEPT !.glossary =
                              (term_id :> md_content.value) @@ glossary]
                      ELSE term_pages_loop(all_terms, i + 1, cats,
                              (term_id :> md_content.value) @@ glossary,
                              ((term_id \o dot_json) :> dumps_term(json_content.value))
                                  @@ api_terms)

----------------------------------------------------------------------------
(* scripts/build_docs.py: main() *)

\* `categories = load_categories()`: an exception ends main.
main_load_categories ==
    /\ prog = "build"
    /\ pc = "load_categories"
    /\ categories' = load_categories(catFile)
    /\ pc' = IF categories'.ok THEN "load_all_terms" ELSE "crashed"
    /\ UNCHANGED <<files, enum, catFile, prog, fixture, result, exitstatus, terms,
                   GLOSSARY_DIR, API_TERMS_DIR, DOCS_DIR>>

\* `terms = load_all_terms()`
main_load_all_terms ==
    /\ prog = "build"
    /\ pc = "load_all_terms"
    /\ terms' = load_all_terms(files, enum)
    /\ pc' = IF terms'.ok THEN "generate_term_pages" ELSE "crashed"
    /\ UNCHANGED <<files, enum, catFile, prog, fixture, result, exitstatus, categories,
                   GLOSSARY_DIR, API_TERMS_DIR, DOCS_DIR>>

\* `for term in terms:` the page and the JSON document of each term.
main_generate_term_pages ==
    /\ prog = "build"
    /\ pc = "generate_term_pages"
    /\ LET done == term_pages_loop(terms.value, 1, categories.value,
                                   GLOSSARY_DIR, API_TERMS_DIR)
       IN  /\ GLOSSARY_DIR' = done.glossary
           /\ API_TERMS_DIR' = done.api_terms
           /\ pc' = IF done.ok THEN "generate_glossary_index" ELSE "crashed"
    /\ UNCHANGED <<files, enum, catFile, prog, fixture, result, exitstatus,
                   categories, terms, DOCS_DIR>>

\* The glossary index and the categories index.
main_generate_indexes ==
    /\ prog = "build"
    /\ pc = "generate_glossary_index"
    /\ LET glossary_index   == generate_glossary_index(terms.value, categories.value)
           categories_index == generate_categories_index(terms.value, categories.value)
       IN  IF glossary_index.ok
           THEN /\ DOCS_DIR' = ("categories/index.md" :> categories_index)
                               @@ ("glossary/index.md" :> glossary_index.value)
                               @@ DOCS_DIR
                /\ pc' = "generate_api_files"
           ELSE /\ DOCS_DIR' = DOCS_DIR
                /\ pc' = "crashed"
    /\ UNCHANGED <<files, enum, catFile, prog, fixture, result, exitstatus,
                   categories, terms, GLOSSARY_DIR, API_TERMS_DIR>>

\* terms.json: the export records of all terms and their number;
\* categories.json: the categories and their number.
main_generate_api_files ==
    /\ prog = "build"
    /\ pc = "generate_api_files"
    /\ LET all_terms_json == [i \in DOMAIN terms.value |->
                                generate_term_json(terms.value[i])]
           categories_json == [id \in DOMAIN categories.value |->
                                 [k \in DOMAIN categories.value[id] |->
                                    dumps_scalar(Str(categories.value[id][k]))]]
       IN  IF \A i \in DOMAIN all_terms_json : all_terms_json[i].ok
           THEN /\ DOCS_DIR' =
                      ("api/v1/categories.json" :>
                          [categories |-> categories_json,
                           count |-> Digits(Cardinality(DOMAIN categories_json))])
                      @@ ("api/v1/terms.json" :>
                          [terms |-> [i \in DOMAIN all_terms_json |->
                                        dumps_term(all_terms_json[i].value)],
                           count |-> Digits(Len(all_terms_json))])
                      @@ DOCS_DIR
                /\ pc' = "generate_api_documentation"
           ELSE /\ DOCS_DIR' = DOCS_DIR
                /\ pc' = "crashed"
    /\ UNCHANGED <<files, enum, catFile, prog, fixture, result, exitstatus,
                   categories, terms, GLOSSARY_DIR, API_TERMS_DIR>>

\* api.md and the home page; then main returns.
main_generate_pages ==
    /\ prog = "build"
    /\ pc = "generate_api_documentation"
    /\ DOCS_DIR' = ("index.md" :> generate_home_page(terms.value, categories.value))
                   @@ ("api.md" :> generate_api_index)
                   @@ DOCS_DIR
    /\ pc' = "done"
    /\ UNCHANGED <<files, enum, catFile, prog, fixture, result, exitstatus,
                   categories, terms, GLOSSARY_DIR, API_TERMS_DIR>>

----------------------------------------------------------------------------
(* The inputs: the documents a run may find on disk *)

\* Bounds of the model.
MaxOver   == 1     \* corpus sizes run from 0 to MinTermCount + MaxOver
MaxRepeat == 22    \* how often one kind of term is repeated in a file
MaxDup    == 2     \* terms per file in the duplicate-id family; repeats after a full corpus
MaxBuildTerms == 24  \* the builder runs over the corpora of at most this many terms

apt   == <<"a","p","t">>
xss   == <<"x","s","s">>
ghost == <<"g","h","o","s","t">>
osint == <<"o","s","i","n","t">>
mitre == <<"m","i","t","r","e">>
nonexistent_cat == <<"n","o","n","e","x","i","s","t","e","n","t","_","c","a","t">>

GoodTerm(id, cat) ==
    Term(Str(id), Str(<<"E","n">>), Str(<<"Z","h">>), Str(cat),
         Definitions("map", Str(<<"b">>)), Related("absent", <<>>),
         References("absent", <<>>))

\* The URL strings tried as a reference.
UrlChoices ==
    { <<"n","o","t","-","a","-","u","r","l">>,
      http, https,
      http \o <<"a">>, https \o <<"a">>, http \o <<"a",".","b","/","c">>,
      http \o <<"a"," ","b">>, http \o <<"a","<","b",">">>, https \o <<"a","\"">>,
      http \o <<" ","a">>, http \o <<"'">>, https \o <<"a","\n">>,
      <<" ">> \o http \o <<"a">>, <<"x">> \o https \o <<"a">>,
      <<"f","t","p",":","/","/","a">>, <<"h","t","t","p","s","s",":","/","/","a">>,
      <<"h","t","t","p",":","/","a">>, <<>> }

\* The kinds of term record: a well-formed one, or one changed in one place.
Variant(kind, id, cat) ==
    LET g == GoodTerm(id, cat)
    IN  CASE kind = "good"        -> g
          [] kind = "same_id"     -> [g EXCEPT !.id = Str(apt)]
          [] kind = "no_id"       -> [g EXCEPT !.id = Absent]
          [] kind = "null_id"     -> [g EXCEPT !.id = Null]
          [] kind = "upper_id"    -> [g EXCEPT !.id = Str(<<"B">> \o id)]
          [] kind = "newline_id"  -> [g EXCEPT !.id = Str(id \o <<"\n">>)]
          [] kind = "no_en"       -> [g EXCEPT !.term_en = Absent]
          [] kind = "null_en"     -> [g EXCEPT !.term_en = Null]
          [] kind = "blank_en"    -> [g EXCEPT !.term_en = Str(<<" ", "\t">>)]
          [] kind = "no_zh"       -> [g EXCEPT !.term_zh = Absent]
          [] kind = "null_zh"     -> [g EXCEPT !.term_zh = Null]
          [] kind = "empty_zh"    -> [g EXCEPT !.term_zh = Str(<<>>)]
          [] kind = "no_defs"     -> [g EXCEPT !.definitions = Definitions("absent", Absent)]
          [] kind = "null_defs"   -> [g EXCEPT !.definitions = Definitions("null", Absent)]
          [] kind = "str_defs"    -> [g EXCEPT !.definitions = Definitions("str", Absent)]
          [] kind = "no_brief"    -> [g EXCEPT !.definitions = Definitions("map", Absent)]
          [] kind = "null_brief"  -> [g EXCEPT !.definitions = Definitions("map", Null)]
          [] kind = "empty_brief" -> [g EXCEPT !.definitions = Definitions("map", Str(<<>>))]
          [] kind = "no_cat"      -> [g EXCEPT !.category = Absent]
          [] kind = "null_cat"    -> [g EXCEPT !.category = Null]
          [] kind = "bad_cat"     -> [g EXCEPT !.category = Str(nonexistent_cat)]
          [] kind = "other_cat"   -> [g EXCEPT !.category =
                                        Str(IF cat = malware THEN technologies ELSE malware)]
          [] kind = "dangling"    -> [g EXCEPT !.related_terms = Related("list", <<ghost>>)]
          [] kind = "dangling2"   -> [g EXCEPT !.related_terms = Related("list", <<ghost, id, xss>>)]
          [] kind = "self_ref"    -> [g EXCEPT !.related_terms = Related("list", <<id>>)]
          [] kind = "null_rel"    -> [g EXCEPT !.related_terms = Related("null", <<>>)]
          [] kind = "bad_url"     -> [g EXCEPT !.references = References("map",
                                        <<Ref(osint, Str(<<"n","o","t","-","a","-","u","r","l">>))>>)]
          [] kind = "bad_urls"    -> [g EXCEPT !.references = References("map",
                                        <<Ref(osint, Str(<<"n","o","t","-","a","-","u","r","l">>)),
                                          Ref(mitre, Str(https \o <<"a">>)),
                                          Ref(apt, Str(<<"f","t","p",":","/","/","a">>))>>)]
          [] kind = "good_url"    -> [g EXCEPT !.references = References("map",
                                        <<Ref(osint, Str(https \o <<"a",".","b">>))>>)]
          [] kind = "null_url"    -> [g EXCEPT !.references = References("map",
                                        <<Ref(osint, Null)>>)]
          [] kind = "null_refs"   -> [g EXCEPT !.references = References("null", <<>>)]
          [] kind = "extras"      -> [g EXCEPT !.subcategory = Str(<<"w","e","b">>),
                                        !.tags = Tags("list", <<<<"a","\"","b">>, xss>>),
                                        !.aliases = Aliases("map", List(<<<<"Z","h","2">>>>), NoList)]
          [] kind = "null_extras" -> [g EXCEPT !.subcategory = Null,
                                        !.tags = Tags("null", <<>>)]
          [] kind = "null_aliases" -> [g EXCEPT !.aliases = Aliases("null", NoList, NoList)]
          [] kind = "all_missing" -> [g EXCEPT !.id = Absent, !.term_en = Absent,
                                        !.term_zh = Absent, !.category = Absent,
                                        !.definitions = Definitions("absent", Absent)]

Variants == {"good", "same_id", "no_id", "null_id", "upper_id", "newline_id",
             "no_en", "null_en", "blank_en", "no_zh", "null_zh", "empty_zh",
             "no_defs", "null_defs", "str_defs", "no_brief", "null_brief",
             "empty_brief", "no_cat", "null_cat", "bad_cat", "other_cat",
             "dangling", "dangling2", "self_ref", "null_rel", "bad_url", "bad_urls",
             "good_url", "null_url", "null_refs", "extras", "null_extras",
             "null_aliases", "all_missing"}

\* The variants that by themselves give warnings only.
WarningVariants == {"other_cat", "dangling", "dangling2"}

\* n terms of one kind with ids <prefix>0, <prefix>1, ...
Block(kind, n, prefix, cat) ==
    [k \in 1..n |-> Variant(kind, <<prefix>> \o Digits(k - 1), cat)]

FileName(cat) == cat \o dot_yaml

\* The well-formed terms t0 .. t(n-1), dealt in turn to the four main
\* categories; BaseTerms(j, n) are those of main category j, in order.
BaseTerms(j, n) ==
    LET mine == {k \in 0..(n - 1) : k % Len(main_categories) = j - 1}
    IN  [i \in 1..Cardinality(mine) |->
            GoodTerm(<<"t">> \o Digits((i - 1) * Len(main_categories) + j - 1),
                     main_categories[j])]

\* One file per main category holding the n base terms, the file of `malware`
\* holding `extra` after them.
MainFiles(n, extra) ==
    [name \in {FileName(main_categories[j]) : j \in DOMAIN main_categories} |->
        LET j == CHOOSE j \in DOMAIN main_categories : FileName(main_categories[j]) = name
        IN  TermsDoc(BaseTerms(j, n) \o (IF main_categories[j] = malware THEN extra ELSE <<>>))]

Category(id) == [id |-> id, name_zh |-> id]

GoodCatFile ==
    CatDoc("map", "list", [j \in DOMAIN main_categories |-> Category(main_categories[j])])

CatFileChoices ==
    { CatDoc("absent", "absent", <<>>), CatDoc("malformed", "absent", <<>>),
      CatDoc("none", "absent", <<>>), CatDoc("list", "absent", <<>>),
      CatDoc("map", "absent", <<>>), CatDoc("map", "null", <<>>),
      CatDoc("map", "list", <<>>),
      CatDoc("map", "list", <<Category(malware), Category(malware)>>),
      GoodCatFile }

Reverse(s) == [i \in DOMAIN s |-> s[Len(s) + 1 - i]]

\* The orders in which the directory may list the files of fs.
Orders(fs) ==
    LET sorted == SortedSet(DOMAIN fs)
    IN  {sorted, Reverse(sorted)}

Scenario(fs, order, cf) == [files |-> fs, enum |-> order, catFile |-> cf]

WithOrders(fs, cf) == {Scenario(fs, o, cf) : o \in Orders(fs)}

\* Corpus sizes around the minimum: n well-formed terms.
FamSize ==
    {Scenario(MainFiles(n, <<>>), SortedSet(DOMAIN MainFiles(n, <<>>)), GoodCatFile) :
        n \in 0..(MinTermCount + MaxOver)}
    \cup
    {Scenario(MainFiles(0, Block("good", n, "x", malware)),
              SortedSet(DOMAIN MainFiles(0, <<>>)), GoodCatFile) :
        n \in (MinTermCount - 1)..(MinTermCount + MaxOver)}

\* One kind of term repeated n times: alone, up to MaxRepeat times; after a
\* corpus of minimum size, up to MaxDup times, and up to MaxRepeat times for
\* the kinds that give warnings only.
FamRepeat ==
    UNION {WithOrders(MainFiles(0, Block(kind, n, "x", malware)), GoodCatFile) :
        kind \in Variants, n \in 0..MaxRepeat}
    \cup
    {Scenario(MainFiles(MinTermCount, Block(kind, n, "x", malware)),
              SortedSet(DOMAIN MainFiles(0, <<>>)), GoodCatFile) :
        kind \in Variants, n \in 0..MaxDup}
    \cup
    {Scenario(MainFiles(MinTermCount, Block(kind, n, "x", malware)),
              SortedSet(DOMAIN MainFiles(0, <<>>)), GoodCatFile) :
        kind \in WarningVariants, n \in 0..MaxRepeat}

\* Two terms of any two kinds; after a corpus of minimum size, a term that
\* gives warnings and a term of any kind.
FamPair ==
    {Scenario(MainFiles(0, <<Variant(k1, <<"x","0">>, malware),
                             Variant(k2, <<"y","0">>, malware)>>),
              SortedSet(DOMAIN MainFiles(0, <<>>)), GoodCatFile) :
        k1 \in Variants, k2 \in Variants}
    \cup
    {Scenario(MainFiles(MinTermCount, <<Variant(k1, <<"x","0">>, malware),
                                        Variant(k2, <<"y","0">>, malware)>>),
              SortedSet(DOMAIN MainFiles(0, <<>>)), GoodCatFile) :
        k1 \in WarningVariants, k2 \in Variants}

\* Two files of up to MaxDup terms whose ids are apt, xss or missing.
RECURSIVE SeqsUpTo(_, _)
SeqsUpTo(S, n) ==
    IF n = 0 THEN {<<>>}
    ELSE LET shorter == SeqsUpTo(S, n - 1)
         IN  shorter \cup {Append(q, x) : q \in shorter, x \in S}

TwoFiles(d1, d2) ==
    (FileName(malware) :> d1) @@ (FileName(attack_types) :> d2)

FamDup ==
    LET ts(cat) == SeqsUpTo({GoodTerm(apt, cat), GoodTerm(xss, cat),
                             [GoodTerm(apt, cat) EXCEPT !.id = Absent]}, MaxDup)
    IN  UNION {WithOrders(TwoFiles(TermsDoc(t1), TermsDoc(t2)), GoodCatFile) :
                  t1 \in ts(malware), t2 \in ts(attack_types)}

\* Two files of any structure and any categories file; and no file at all.
StructDocs(id, cat) ==
    { NoneDoc, MalformedDoc, ListDoc(<<>>), ListDoc(<<xss>>), ListDoc(<<terms_key>>),
      NoTermsDoc(FALSE), NoTermsDoc(TRUE), NullTermsDoc,
      TermsDoc(<<>>), TermsDoc(<<GoodTerm(id, cat)>>) }

FamStruct ==
    UNION {WithOrders(TwoFiles(d1, d2), cf) :
              d1 \in StructDocs(<<"m","1">>, malware),
              d2 \in StructDocs(<<"a","1">>, attack_types),
              cf \in CatFileChoices}
    \cup {Scenario(<<>>, <<>>, GoodCatFile)}

\* Any categories file against terms with a good, bad or missing category.
FamCat ==
    {Scenario(MainFiles(base, <<Variant(kind, <<"x","0">>, malware)>>),
              SortedSet(DOMAIN MainFiles(0, <<>>)), cf) :
        base \in {0, MinTermCount},
        kind \in {"good", "no_cat", "null_cat", "bad_cat", "other_cat"},
        cf \in CatFileChoices}

\* One term with one reference, of any of the URL strings or null.
FamUrl ==
    {Scenario(MainFiles(0, <<[GoodTerm(apt, malware) EXCEPT
                                !.references = References("map", <<Ref(osint, u)>>)]>>),
              SortedSet(DOMAIN MainFiles(0, <<>>)), GoodCatFile) :
        u \in {Str(c) : c \in UrlChoices} \cup {Null}}

\* The number of term records in the files.
CorpusSize(fs) ==
    LET names == SortedSet(DOMAIN fs)
    IN  Len(Flatten([i \in DOMAIN names |-> fs[names[i]].terms]))

Scenarios == FamSize \cup FamRepeat \cup FamPair \cup FamDup \cup FamStruct
             \cup FamCat \cup FamUrl

----------------------------------------------------------------------------
(* The specification *)

Init ==
    /\ \E sc \in Scenarios :
          /\ files = sc.files
          /\ enum = sc.enum
          /\ catFile = sc.catFile
    /\ prog \in (IF CorpusSize(files) <= MaxBuildTerms
                 THEN {"pytest", "build"} ELSE {"pytest"})
    /\ pc = IF prog = "pytest" THEN TestOrder[1] ELSE "load_categories"
    /\ fixture = NotLoaded
    /\ result = [t \in Tests |-> Pending]
    /\ exitstatus = -1
    /\ categories = NotLoaded
    /\ terms = NotLoaded
    /\ GLOSSARY_DIR = <<>>
    /\ API_TERMS_DIR = <<>>
    /\ DOCS_DIR = <<>>

Next ==
    \/ test_yaml_files_exist
    \/ test_yaml_syntax_valid
    \/ test_yaml_has_terms_key
    \/ test_term_ids_unique_globally
    \/ test_term_id_format
    \/ test_required_fields_present
    \/ test_definitions_has_brief
    \/ test_term_names_not_empty
    \/ test_category_is_valid
    \/ test_category_matches_filename
    \/ test_related_terms_exist
    \/ test_reference_urls_format
    \/ test_minimum_term_count
    \/ test_term_count_by_category
    \/ pytest_sessionfinish
    \/ main_load_categories
    \/ main_load_all_terms
    \/ main_generate_term_pages
    \/ main_generate_indexes
    \/ main_generate_api_files
    \/ main_generate_pages

Spec == Init /\ [][Next]_vars

----------------------------------------------------------------------------
(* Properties *)

Ran(t) == prog = "pytest" /\ result[t].outcome # "pending"

\* The test t has just run.
JustRan(t) == prog = "pytest" /\ pc = After(t)

SessionDone == prog = "pytest" /\ pc = "done"

\* Both loads of the validation suite returned: the terms and the categories.
SuiteLoaded == get_all_terms(files, enum).ok /\ load_valid_categories(catFile).ok

\* The checks whose findings are warnings; those of every other test are fatal.
WarningTests == {"test_category_matches_filename", "test_related_terms_exist"}
FatalTests   == Tests \ WarningTests

FatalFindingExists == \E t \in FatalTests : result[t].findings # <<>>
WarningExists      == \E t \in WarningTests : result[t].findings # <<>>

Sum(f, S) ==
    LET RECURSIVE Acc(_)
        Acc(T) == IF T = {} THEN 0
                  ELSE LET x == CHOOSE x \in T : TRUE IN f[x] + Acc(T \ {x})
    IN  Acc(S)

\* C1: once the terms and the categories are loaded, the session passes (exit
\* status 0) if and only if no check with fatal findings collected a finding;
\* the findings of the two warning checks never decide the status.
C1_PassIffNoFatalFinding ==
    (SessionDone /\ SuiteLoaded) => ((exitstatus = 0) <=> ~FatalFindingExists)

\* C1 witness: a session over loaded terms and categories that passed although
\* a term's category differs from its file's name, which the check of the
\* file names collected and reported as a skip.
C1_Witness ==
    /\ SessionDone
    /\ SuiteLoaded
    /\ exitstatus = 0
    /\ result["test_category_matches_filename"].outcome = "skipped"
    /\ result["test_category_matches_filename"].findings # <<>>

\* The terms in load order and, for C2, the positions that repeat an id:
\* position i repeats when an earlier term has the same id.
IdAt(ts, i) == Get(ts[i].id, Null)
Repeats(ts) == {i \in DOMAIN ts : \E j \in 1..(i - 1) : IdAt(ts, j) = IdAt(ts, i)}
FirstOf(ts, i) == SetMin({j \in DOMAIN ts : IdAt(ts, j) = IdAt(ts, i)})

RECURSIVE Ascending(_)
Ascending(S) == IF S = {} THEN <<>> ELSE <<SetMin(S)>> \o Ascending(S \ {SetMin(S)})

\* C2: the id-uniqueness check passes when all ids differ, and otherwise
\* collects, in load order, one finding for each occurrence of an id after its
\* first (k occurrences give k - 1 findings), each naming the file of the
\* first occurrence and the file of the repeated one; all are printed.
C2_OneFindingPerRepeatedId ==
    (JustRan("test_term_ids_unique_globally") /\ fixture.ok) =>
        LET ts  == fixture.value
            r   == result["test_term_ids_unique_globally"]
            rep == Ascending(Repeats(ts))
        IN  /\ r.findings =
                 [n \in DOMAIN rep |->
                    Finding("duplicate_id", ts[rep[n]]._source_file.s,
                            Fmt(IdAt(ts, rep[n])),
                            ts[FirstOf(ts, rep[n])]._source_file.s)]
            /\ r.report = r.findings
            /\ \A i \in DOMAIN ts :
                 Cardinality({n \in DOMAIN r.findings :
                                r.findings[n].term_id = Fmt(IdAt(ts, i))})
                 = Cardinality({j \in DOMAIN ts : IdAt(ts, j) = IdAt(ts, i)}) - 1
            /\ (r.outcome = "passed") <=> (Repeats(ts) = {})
            /\ (r.outcome = "failed") <=> (Repeats(ts) # {})

\* C2 witness: two files each hold one term, both with id apt, and the check
\* collected exactly one finding, which names the two files.
C2_Witness ==
    /\ JustRan("test_term_ids_unique_globally")
    /\ fixture.ok
    /\ Len(fixture.value) = 2
    /\ fixture.value[1].id = Str(apt) /\ fixture.value[2].id = Str(apt)
    /\ fixture.value[1]._source_file # fixture.value[2]._source_file
    /\ LET r == result["test_term_ids_unique_globally"]
       IN  /\ Len(r.findings) = 1
           /\ {r.findings[1].source, r.findings[1].arg} =
                {FileName(malware), FileName(attack_types)}

\* The number of term records in all the files.
TotalTerms == Sum([f \in DOMAIN files |-> Len(files[f].terms)], DOMAIN files)

\* C8: the minimum-size check passes if and only if the files load and hold
\* at least MinTermCount term records in all; with fewer it fails with one
\* finding; a file with an empty `terms` list passes the structure tests.
C8_MinimumTermCount ==
    JustRan("test_minimum_term_count") =>
        LET r == result["test_minimum_term_count"]
        IN  /\ (r.outcome = "passed") <=> (fixture.ok /\ TotalTerms >= MinTermCount)
            /\ (fixture.ok /\ TotalTerms < MinTermCount) =>
                 (r.outcome = "failed" /\ Len(r.findings) = 1)
            /\ (\A f \in DOMAIN files : files[f] = TermsDoc(<<>>)
                                         \/ files[f].terms # <<>>) =>
                 /\ result["test_yaml_syntax_valid"].outcome = "passed"
                 /\ result["test_yaml_has_terms_key"].outcome = "passed"

\* C8 witness: exactly MinTermCount terms, one file with an empty list, passed.
C8_Witness ==
    /\ JustRan("test_minimum_term_count")
    /\ result["test_minimum_term_count"].outcome = "passed"
    /\ TotalTerms = MinTermCount
    /\ \E f \in DOMAIN files : files[f] = TermsDoc(<<>>)

\* The dangling references of the corpus: every entry of a related_terms list
\* that is the id of no term.
Dangling(ts) ==
    Sum([i \in DOMAIN ts |->
            Cardinality({k \in DOMAIN ts[i].related_terms.items :
                ~\E j \in DOMAIN ts : ts[j].id = Str(ts[i].related_terms.items[k])})],
        DOMAIN ts)

\* C10: the related-terms check collects one warning for each dangling
\* reference of the whole corpus, prints its alert if and only if there are
\* more than MissingRefThreshold of them, and passes whatever their number.
C10_RelatedTermsWarnOnly ==
    (JustRan("test_related_terms_exist") /\ fixture.ok) =>
        LET r == result["test_related_terms_exist"]
        IN  /\ Len(r.findings) = Dangling(fixture.value)
            /\ (r.out # <<>>) <=> (Dangling(fixture.value) > MissingRefThreshold)
            /\ r.outcome = "passed"
            /\ r.report = <<>>

\* C10 witness: twelve dangling references, the alert printed, exit status 0.
C10_Witness ==
    /\ SessionDone
    /\ exitstatus = 0
    /\ Len(result["test_related_terms_exist"].findings) = MissingRefThreshold + 2
    /\ result["test_related_terms_exist"].out # <<>>

\* The tests whose assertion message prints `findings[:20]`.
TruncatedTests == {"test_required_fields_present", "test_definitions_has_brief",
                   "test_category_is_valid", "test_reference_urls_format"}

\* The ids of the categories file, when it holds a list of categories.
RegistryLoaded(cf) == cf.kind = "map" /\ cf.cats_tag = "list"
RegistryIds(cf) == {cf.cats[i].id : i \in DOMAIN cf.cats}

\* What the data holds for each of these checks: the missing required fields,
\* the terms without definitions.brief, the terms whose category is no id of
\* the registry, the references that are non-empty strings and do not start
\* as a URL.
DataFindings(t, ts) ==
    CASE t = "test_required_fields_present" ->
           Sum([i \in DOMAIN ts |->
                  Cardinality({k \in DOMAIN REQUIRED_FIELDS :
                                 ts[i][REQUIRED_FIELDS[k]].tag \in {"absent", "null"}})],
               DOMAIN ts)
      [] t = "test_definitions_has_brief" ->
           Cardinality({i \in DOMAIN ts :
                          ~(/\ ts[i].definitions.tag = "map"
                            /\ ts[i].definitions.brief.tag = "str"
                            /\ ts[i].definitions.brief.s # <<>>)})
      [] t = "test_category_is_valid" ->
           Cardinality({i \in DOMAIN ts :
                          \/ ts[i].category.tag # "str"
                          \/ ts[i].category.s \notin RegistryIds(catFile)})
      [] t = "test_reference_urls_format" ->
           Sum([i \in DOMAIN ts |->
                  Cardinality({k \in DOMAIN ts[i].references.items :
                      LET url == ts[i].references.items[k].url
                      IN  /\ url.tag = "str"
                          /\ url.s # <<>>
                          /\ ~\E p \in {http, https} :
                                /\ IsPrefix(p, url.s)
                                /\ Len(url.s) > Len(p)
                                /\ url.s[Len(p) + 1] \notin UrlExcluded})],
               DOMAIN ts)

\* The test t has just run to its assertion.
Asserted(t) == JustRan(t) /\ result[t].outcome \in {"passed", "failed"}

\* C3 as claimed: every data-level finding of these four checks is printed in
\* the report of the run, however many there are.
C3_EveryFindingReported ==
    \A t \in TruncatedTests :
        Asserted(t) => Len(result[t].report) = DataFindings(t, fixture.value)

\* C3 amended: each of these four checks collects every data-level finding
\* and fails when there is one, but its report prints the first ReportLimit
\* findings only, in load order: all of them when there are at most
\* ReportLimit, the first ReportLimit when there are more.
C3_FirstTwentyReported ==
    \A t \in TruncatedTests :
        Asserted(t) =>
            LET r == result[t]
                n == DataFindings(t, fixture.value)
            IN  /\ Len(r.findings) = n
                /\ Len(r.report) = (IF n <= ReportLimit THEN n ELSE ReportLimit)
                /\ \A k \in DOMAIN r.report : r.report[k] = r.findings[k]
                /\ (r.outcome = "failed") <=> (n > 0)

\* C3 witness: more than ReportLimit required fields are missing and the
\* report of the failed test holds ReportLimit findings.
C3_Witness ==
    /\ Asserted("test_required_fields_present")
    /\ result["test_required_fields_present"].outcome = "failed"
    /\ Len(result["test_required_fields_present"].findings) > ReportLimit
    /\ Len(result["test_required_fields_present"].report) = ReportLimit

\* A document that is empty, is not a mapping, or lacks the key `terms`.
StructurallyBad(d) ==
    \/ d.kind \in {"none", "list"}
    \/ d.kind = "map" /\ d.terms_tag = "absent"

\* C4 as claimed: when a file is empty, is not a mapping or lacks `terms`,
\* load_all_terms does not return normally, and a validation run whose terms
\* loaded reports a structural finding.
C4_NoSilentOmission ==
    /\ (prog = "build" /\ pc = "generate_term_pages") =>
          \A f \in DOMAIN files : ~StructurallyBad(files[f])
    /\ (SessionDone /\ fixture.ok) =>
          ((\E f \in DOMAIN files : StructurallyBad(files[f])) =>
              \/ result["test_yaml_syntax_valid"].findings # <<>>
              \/ result["test_yaml_has_terms_key"].findings # <<>>)

\* C5 as claimed: load_categories raises when categories.yaml is absent, is
\* malformed or lacks the key `categories`, and returns no mapping then.
C5_LoadCategoriesFails ==
    (prog = "build" /\ pc # "load_categories") =>
        ((\/ catFile.kind \in {"absent", "malformed", "none", "list"}
          \/ catFile.kind = "map" /\ catFile.cats_tag = "absent")
            => ~categories.ok)

\* C6 as claimed: with a loaded registry the category check collects one
\* finding for each term whose category is no id of the registry, none for the
\* others, and fails when there is one; when the registry did not load the
\* check is skipped.
C6_CategoryValidity ==
    (JustRan("test_category_is_valid") /\ fixture.ok) =>
        LET r == result["test_category_is_valid"]
            n == DataFindings("test_category_is_valid", fixture.value)
        IN  IF RegistryLoaded(catFile)
            THEN /\ Len(r.findings) = n
                 /\ n > 0 => r.outcome = "failed"
            ELSE r.outcome = "skipped"

\* The terms of all files in the order of the file names, each file's terms
\* in their order on disk.
InNameOrder(fs) ==
    LET names == SortedSet(DOMAIN fs)
    IN  Flatten([i \in DOMAIN names |-> fs[names[i]].terms])

WithoutSource(ts) == [i \in DOMAIN ts |-> [ts[i] EXCEPT !._source_file = Absent]]

\* C7 as claimed: every load that returns gives the terms in the order of the
\* file names, whatever the order in which the directory lists the files.
C7_LoadOrderDeterministic ==
    /\ (prog = "pytest" /\ fixture.ok) => WithoutSource(fixture.value) = InNameOrder(files)
    /\ (prog = "build" /\ terms.ok) => terms.value = InNameOrder(files)

\* The minimal URL shape: http:// or https:// and then one or more
\* characters, none of them whitespace, an angle bracket or a quote.
HasUrlShape(v) ==
    /\ v.tag = "str"
    /\ \E p \in {http, https} :
          /\ IsPrefix(p, v.s)
          /\ Len(v.s) > Len(p)
          /\ \A j \in (Len(p) + 1)..Len(v.s) : v.s[j] \notin UrlExcluded

\* C9 as claimed, for the values that are non-empty strings: the URL check
\* collects a finding for a key of a term's references if and only if its
\* value does not have the minimal URL shape.
C9_FindingIffNotUrlShape ==
    (JustRan("test_reference_urls_format") /\ fixture.ok) =>
        \A i \in DOMAIN fixture.value :
            LET term == fixture.value[i]
            IN  \A k \in DOMAIN term.references.items :
                   Truthy(term.references.items[k].url) =>
                   ((\E n \in DOMAIN result["test_reference_urls_format"].findings :
                       result["test_reference_urls_format"].findings[n] =
                          Finding("invalid_url", term._source_file.s,
                                  Fmt(Get(term.id, unknown)),
                                  term.references.items[k].key))
                    <=> ~HasUrlShape(term.references.items[k].url))

\* The main categories that no term of ts has as its category.
EmptyMainCategories(ts) ==
    {k \in DOMAIN main_categories :
        ~\E i \in DOMAIN ts : ts[i].category = Str(main_categories[k])}

\* C12 as claimed: the check of the terms per category collects one finding
\* for each main category without a term: m findings when m of the four are
\* empty, none when each has a term.
C12_OneFindingPerEmptyCategory ==
    (JustRan("test_term_count_by_category") /\ fixture.ok) =>
        Len(result["test_term_count_by_category"].findings) =
            Cardinality(EmptyMainCategories(fixture.value))

\* main has returned.
MainDone == prog = "build" /\ pc = "done"

\* C13 as claimed: when main has returned, the file <id>.json of every loaded
\* term holds the export record of that term, and the number of files in
\* API_TERMS_DIR equals the count written to terms.json, the number of
\* loaded terms.
C13_EveryTermHasItsOutput ==
    MainDone =>
        /\ \A i \in DOMAIN terms.value :
              LET term == terms.value[i]
                  name == Fmt(term.id) \o dot_json
              IN  /\ name \in DOMAIN API_TERMS_DIR
                  /\ loads_term(API_TERMS_DIR[name]) = generate_term_json(term).value
        /\ Cardinality(DOMAIN API_TERMS_DIR) =
              loads_int(DOCS_DIR["api/v1/terms.json"].count)
        /\ loads_int(DOCS_DIR["api/v1/terms.json"].count) = Len(terms.value)

\* The keys of an export record.
ExportKeys == {"id", "term_en", "term_zh", "definitions", "category",
               "subcategory", "tags", "related_terms", "aliases"}

\* The terms are loaded in the build; terms.json is written.
TermsLoaded == prog = "build" /\ terms.ok
TermsJsonWritten == prog = "build" /\ "api/v1/terms.json" \in DOMAIN DOCS_DIR

\* The export record of term i as read back from terms.json.
ReadBack(i) == loads_term(DOCS_DIR["api/v1/terms.json"].terms[i])

HasNameKeys(term) ==
    term.id.tag # "absent" /\ term.term_en.tag # "absent" /\ term.term_zh.tag # "absent"

\* C11 as claimed: every loaded term has an export record; the record has
\* exactly the nine keys, so not _source_file, and read back from terms.json
\* its id, term_en, term_zh and category are those of the term.
C11_ExportKeepsFourFields ==
    /\ TermsLoaded =>
          \A i \in DOMAIN terms.value : generate_term_json(terms.value[i]).ok
    /\ TermsJsonWritten =>
          \A i \in DOMAIN terms.value :
              /\ DOMAIN ReadBack(i) = ExportKeys
              /\ ReadBack(i).id = terms.value[i].id
              /\ ReadBack(i).term_en = terms.value[i].term_en
              /\ ReadBack(i).term_zh = terms.value[i].term_zh
              /\ ReadBack(i).category = terms.value[i].category

\* C11 amended: generate_term_json gives a record exactly for the terms
\* that have the keys id, term_en and term_zh, and raises KeyError for the
\* others; every record written, to terms.json or to a file of
\* API_TERMS_DIR, has exactly the nine keys and reads back with the id,
\* term_en and term_zh of its term and with the term's category, the empty
\* string when the term has none.
C11_ExportOfNamedTerms ==
    /\ TermsLoaded =>
          \A i \in DOMAIN terms.value :
              LET r == generate_term_json(terms.value[i])
              IN  IF HasNameKeys(terms.value[i]) THEN r.ok
                  ELSE ~r.ok /\ r.exc = "KeyError"
    /\ TermsJsonWritten =>
          \A i \in DOMAIN terms.value :
              /\ DOMAIN ReadBack(i) = ExportKeys
              /\ ReadBack(i).id = terms.value[i].id
              /\ ReadBack(i).term_en = terms.value[i].term_en
              /\ ReadBack(i).term_zh = terms.value[i].term_zh
              /\ ReadBack(i).category =
                    (IF terms.value[i].category.tag = "absent" THEN Str(<<>>)
                     ELSE terms.value[i].category)
    /\ prog = "build" =>
          \A name \in DOMAIN API_TERMS_DIR :
              LET r == loads_term(API_TERMS_DIR[name])
              IN  /\ DOMAIN r = ExportKeys
                  /\ \E i \in DOMAIN terms.value :
                        /\ name = terms.value[i].id.s \o dot_json
                        /\ r.id = terms.value[i].id
                        /\ r.term_en = terms.value[i].term_en
                        /\ r.term_zh = terms.value[i].term_zh
                        /\ r.category =
                              (IF terms.value[i].category.tag = "absent" THEN Str(<<>>)
                               ELSE terms.value[i].category)

\* C11 witness: main has returned over a term without category, exported
\* with the empty string, and a term whose id ends in a newline, which is
\* escaped in the file and read back as it was.
C11_Witness ==
    /\ MainDone
    /\ \E i, j \in DOMAIN terms.value :
          /\ terms.value[i].category.tag = "absent"
          /\ ReadBack(i).category = Str(<<>>)
          /\ "\n" \in {terms.value[j].id.s[k] : k \in DOMAIN terms.value[j].id.s}
          /\ ReadBack(j).id = terms.value[j].id
          /\ DOCS_DIR["api/v1/terms.json"].terms[j].id # <<quote>> \o terms.value[j].id.s \o <<quote>>

====
